---- MODULE Spec2Model ----
(***************************************************************************)
(* matilda: the cluster (master/worker) tile scraper of                    *)
(* src/unnamed/part_001.  The master owns the (z,x,y) cursor, hands one    *)
(* job per worker report, and stops the pool when every worker has been    *)
(* answered by an exhausted cursor.  Workers run getTile.                  *)
(* The coordinate functions are also applied on their own, together with  *)
(* bboxToBounds and the start of getTiles of src/index.js.                 *)
(***************************************************************************)
EXTENDS Integers, Sequences, FiniteSets, Bags, TLC

\* ------------------------------------------------------------ bounds
MaxZoom == 1      \* zoom ranges are drawn from 0..MaxZoom
MaxCPUs == 2      \* numCPUs is drawn from 1..MaxCPUs
MaxFaults == 1    \* environment failures (rejected fetch, stream error) per behaviour
MaxTiles == 5     \* options are drawn with at most MaxTiles tiles in their range
MaxProbeZoom == 3 \* the coordinate functions are applied at zooms 0..MaxProbeZoom

\* Latitudes and longitudes (degrees) the bounding boxes are drawn from: the
\* boxes have their south-east corner at (0, 0) and their north-west corner
\* at (0 or 60, -90 or 0).
Souths == {0}
Norths == {0, 60}
Wests == {-90, 0}
Easts == {0}

\* ------------------------------------------------------------ coordinate math
\* lngToTile that rounds to the nearest tile instead of taking the floor.
lngToTileRound(lng, zoom) == ((lng + 180) * (2 ^ zoom) + 180) \div 360

\* lngToTile: floor((lng + 180) / 360 * 2^zoom); exact on integer degrees.
lngToTile(lng, zoom) == ((lng + 180) * (2 ^ zoom)) \div 360

\* The Mercator fraction (1 - log / PI) / 2 of latToTile, for the latitudes
\* of ProbeLats, in units of 1/65536 (floor of the double the formula yields).
MercatorFraction(lat) ==
    CASE lat = -85 -> 65428
      [] lat = -60 -> 46504
      [] lat = -45 -> 41961
      [] lat = -30 -> 38497
      [] lat = 0   -> 32768
      [] lat = 30  -> 27038
      [] lat = 45  -> 23574
      [] lat = 60  -> 19031
      [] lat = 85  -> 107

\* latToTile: floor(fraction * 2^zoom).
latToTile(lat, zoom) == (MercatorFraction(lat) * (2 ^ zoom)) \div 65536

\* bboxToBounds of the cluster version: bbox is [south, west, north, east].
bboxToBounds(bbox, zoom) ==
    [south |-> latToTile(bbox[1], zoom),
     west  |-> lngToTile(bbox[2], zoom),
     north |-> latToTile(bbox[3], zoom),
     east  |-> lngToTile(bbox[4], zoom)]

\* bboxToBounds of src/index.js: north is taken from bbox[0] and south from
\* bbox[2].
bboxToBoundsIndex(bbox, zoom) ==
    [north |-> latToTile(bbox[1], zoom),
     west  |-> lngToTile(bbox[2], zoom),
     south |-> latToTile(bbox[3], zoom),
     east  |-> lngToTile(bbox[4], zoom)]

\* ------------------------------------------------------------ values
\* getNextJob returning undefined.
NoJob == [z |-> -1, x |-> -1, y |-> -1]

\* The err argument of the worker's callback.
ErrNull == [kind |-> "null", path |-> <<>>]
ErrUndefined == [kind |-> "undefined", path |-> <<>>]
pathError(path) == [kind |-> "PathError", path |-> path]

\* JavaScript truthiness of an err value (!!err).
Truthy(err) == err.kind = "PathError"

\* The message a worker sends back: { success: !!err, err }.
Report(err) == [success |-> Truthy(err), err |-> err]

\* ------------------------------------------------------------ state
VARIABLES
    options,    \* [bbox, zoom: [min, max]]
    numCPUs,    \* os.cpus().length
    root,       \* the output path: absent | dir | file | readonly | uncreatable
    zdir,       \* output/z for each z: absent | dir | file
    xdirs,      \* the <<z, x>> whose directory output/z/x exists
    files,      \* the coords whose image file exists
    mstate,     \* master: init | running | stopped | failed
    coords,     \* the cursor
    bounds,     \* the tile bounds of the cursor's zoom
    count,      \* the tile counter
    stopped,    \* stopChildProcesses' counter
    called,     \* the arguments of every call of getTiles' callback
    workers,    \* cluster.workers: the bag of the worker processes' states
    issued,     \* history: the coords of every job sent to a worker, in order
    emitted,    \* history: the initial cursor, then every job of getNextJob
    fetched,    \* history: axios requests per coords in the current run
    faults,     \* environment failures so far
    run,        \* which invocation of getTiles this is
    probe,      \* the last application of a coordinate function: its
                \* arguments and what it returned
    hist        \* history used by the properties: the store at entry, path
                \* errors reported, the first run's outcome, the reports sent
                \* for rejected fetches, a kill that cut an open write stream

vars == <<options, numCPUs, root, zdir, xdirs, files, mstate, coords, bounds,
          count, stopped, called, workers, issued, emitted, fetched, faults,
          run, probe, hist>>

Zooms == 0..MaxZoom

\* ------------------------------------------------------------ workers
\* The code never reads a worker's id (a handler replies to the worker it is
\* registered on), so the pool is kept as a bag of worker states:
\*   st       ready | crashed | killed
\*   inbox    jobs sent by the master, not yet handled
\*   outbox   reports sent to the master, not yet handled
\*   pending  coords with an axios request in flight
\*   writing  some write stream of the worker is still open
\*   idle     history: its last report was answered by stopChildProcesses()
ForkedTwoJobs(job) ==
    [st |-> "ready", inbox |-> <<job, job>>, outbox |-> <<>>, pending |-> {},
     writing |-> FALSE, idle |-> FALSE]

Forked(job) ==
    [st |-> "ready", inbox |-> <<job>>, outbox |-> <<>>, pending |-> {},
     writing |-> FALSE, idle |-> FALSE]

Pool == BagToSet(workers)

\* The pool with one worker in state ws now in state ws2.
Replace(B, ws, ws2) == (B (-) SetToBag({ws})) (+) SetToBag({ws2})

\* worker.kill(): the process ends and its open streams with it.
Killed(ws) ==
    [ws EXCEPT !.st = IF @ = "crashed" THEN "crashed" ELSE "killed",
               !.writing = FALSE]

\* stopChildProcesses' loop: every worker of the pool killed.
KillAll(B) ==
    [y \in {Killed(x) : x \in DOMAIN B} |->
        BagCardinality([x \in {x2 \in DOMAIN B : Killed(x2) = y} |-> B[x]])]

\* ------------------------------------------------------------ the range
\* The tiles of one zoom, column by column (x ascending, y ascending).
Rect(b, z) ==
    IF b.east < b.west \/ b.south < b.north THEN <<>>
    ELSE LET h == b.south - b.north + 1
             w == b.east - b.west + 1
         IN [k \in 1..(w * h) |->
                [z |-> z, x |-> b.west + ((k - 1) \div h),
                 y |-> b.north + ((k - 1) % h)]]

RECURSIVE Enumeration(_, _, _)
Enumeration(bbox, z, max) ==
    IF z > max THEN <<>>
    ELSE Rect(bboxToBounds(bbox, z), z) \o Enumeration(bbox, z + 1, max)

\* The reference nested enumeration of an options record.
Reference(o) == Enumeration(o.bbox, o.zoom.min, o.zoom.max)

RECURSIVE TileSum(_, _, _)
TileSum(bbox, z, max) ==
    IF z > max THEN 0
    ELSE LET b == bboxToBounds(bbox, z)
         IN (b.east - b.west + 1) * (b.south - b.north + 1)
            + TileSum(bbox, z + 1, max)

SeqRange(s) == {s[i] : i \in 1..Len(s)}
Range(o) == SeqRange(Reference(o))

\* ------------------------------------------------------------ createDir
\* createDir on a path in state st, where mkdirSync succeeds iff can.
\* existsSync is true of a directory and of a regular file alike.
\* createDir that calls mkdirSync unconditionally and takes EEXIST for a
\* failure.
createDirNoEEXIST(st, can) ==
    IF st # "absent" THEN [ok |-> FALSE, st |-> st]
    ELSE IF can THEN [ok |-> TRUE, st |-> "dir"]
    ELSE [ok |-> FALSE, st |-> "absent"]

createDir(st, can) ==
    IF st # "absent" THEN [ok |-> TRUE, st |-> st]
    ELSE IF can THEN [ok |-> TRUE, st |-> "dir"]
    ELSE [ok |-> FALSE, st |-> "absent"]

\* ------------------------------------------------------------ getNextJob
\* getNextJob with the row test written y < south: the last row is skipped.
getNextJobStrictRow(c, b, n) ==
    IF c.z > options.zoom.max
    THEN [coords |-> c, bounds |-> b, count |-> n, job |-> NoJob]
    ELSE
      LET cy == [c EXCEPT !.y = c.y + 1] IN
      IF cy.y < b.south
      THEN [coords |-> cy, bounds |-> b, count |-> n + 1, job |-> cy]
      ELSE
        LET cx == [cy EXCEPT !.x = cy.x + 1, !.y = b.north] IN
        IF cx.x <= b.east
        THEN [coords |-> cx, bounds |-> b, count |-> n + 1, job |-> cx]
        ELSE
          LET b1 == bboxToBounds(options.bbox, c.z + 1)
              cz == [z |-> c.z + 1, x |-> b1.west, y |-> b1.north]
          IN [coords |-> cz, bounds |-> b1, count |-> n + 1,
              job |-> IF cz.z <= options.zoom.max THEN cz ELSE NoJob]

\* getNextJob with count++ moved to the places that return a job.
getNextJobCountsJobs(c, b, n) ==
    IF c.z > options.zoom.max
    THEN [coords |-> c, bounds |-> b, count |-> n, job |-> NoJob]
    ELSE
      LET cy == [c EXCEPT !.y = c.y + 1] IN
      IF cy.y <= b.south
      THEN [coords |-> cy, bounds |-> b, count |-> n + 1, job |-> cy]
      ELSE
        LET cx == [cy EXCEPT !.x = cy.x + 1, !.y = b.north] IN
        IF cx.x <= b.east
        THEN [coords |-> cx, bounds |-> b, count |-> n + 1, job |-> cx]
        ELSE
          LET b1 == bboxToBounds(options.bbox, c.z + 1)
              cz == [z |-> c.z + 1, x |-> b1.west, y |-> b1.north]
          IN IF cz.z <= options.zoom.max
             THEN [coords |-> cz, bounds |-> b1, count |-> n + 1, job |-> cz]
             ELSE [coords |-> cz, bounds |-> b1, count |-> n, job |-> NoJob]

\* getNextJob with count++ placed before the test of coords.z.
getNextJobCountsCalls(c, b, n) ==
    IF c.z > options.zoom.max
    THEN [coords |-> c, bounds |-> b, count |-> n + 1, job |-> NoJob]
    ELSE
      LET cy == [c EXCEPT !.y = c.y + 1] IN
      IF cy.y <= b.south
      THEN [coords |-> cy, bounds |-> b, count |-> n + 1, job |-> cy]
      ELSE
        LET cx == [cy EXCEPT !.x = cy.x + 1, !.y = b.north] IN
        IF cx.x <= b.east
        THEN [coords |-> cx, bounds |-> b, count |-> n + 1, job |-> cx]
        ELSE
          LET b1 == bboxToBounds(options.bbox, c.z + 1)
              cz == [z |-> c.z + 1, x |-> b1.west, y |-> b1.north]
          IN [coords |-> cz, bounds |-> b1, count |-> n + 1,
              job |-> IF cz.z <= options.zoom.max THEN cz ELSE NoJob]

\* Lines 257-319.
getNextJob(c, b, n) ==
    IF c.z > options.zoom.max
    THEN [coords |-> c, bounds |-> b, count |-> n, job |-> NoJob]
    ELSE
      LET cy == [c EXCEPT !.y = c.y + 1] IN
      IF cy.y <= b.south
      THEN [coords |-> cy, bounds |-> b, count |-> n + 1, job |-> cy]
      ELSE
        LET cx == [cy EXCEPT !.x = cy.x + 1, !.y = b.north] IN
        IF cx.x <= b.east
        THEN [coords |-> cx, bounds |-> b, count |-> n + 1, job |-> cx]
        ELSE
          LET b1 == bboxToBounds(options.bbox, c.z + 1)
              cz == [z |-> c.z + 1, x |-> b1.west, y |-> b1.north]
          IN [coords |-> cz, bounds |-> b1, count |-> n + 1,
              job |-> IF cz.z <= options.zoom.max THEN cz ELSE NoJob]

\* ------------------------------------------------------------ getTile
\* The synchronous part of getTile for coords c: the two createDir calls and
\* the existence check.  act is "callback" (callback(err) was called at once)
\* or "axios" (the request was started).  mkdirSync of output/z succeeds iff
\* the output root is a writable directory; mkdirSync of output/z/x succeeds
\* iff output/z is a directory.
\* getTile without the existsSync(image) test.
getTileAlwaysFetch(c, rt, zd, xd, fs) ==
    LET dz == createDir(zd[c.z], rt = "dir") IN
    IF ~dz.ok
    THEN [act |-> "callback", err |-> pathError(<<c.z>>), zdir |-> zd, xdirs |-> xd]
    ELSE
      LET zd1 == [zd EXCEPT ![c.z] = dz.st]
          dx == createDir(IF <<c.z, c.x>> \in xd THEN "dir" ELSE "absent",
                          zd1[c.z] = "dir")
      IN
      IF ~dx.ok
      THEN [act |-> "callback", err |-> pathError(<<c.z, c.x>>),
            zdir |-> zd1, xdirs |-> xd]
      ELSE [act |-> "axios", err |-> ErrUndefined, zdir |-> zd1,
            xdirs |-> xd \cup {<<c.z, c.x>>}]

getTile(c, rt, zd, xd, fs) ==
    LET dz == createDir(zd[c.z], rt = "dir") IN
    IF ~dz.ok
    THEN [act |-> "callback", err |-> pathError(<<c.z>>), zdir |-> zd, xdirs |-> xd]
    ELSE
      LET zd1 == [zd EXCEPT ![c.z] = dz.st]
          dx == createDir(IF <<c.z, c.x>> \in xd THEN "dir" ELSE "absent",
                          zd1[c.z] = "dir")
      IN
      IF ~dx.ok
      THEN [act |-> "callback", err |-> pathError(<<c.z, c.x>>),
            zdir |-> zd1, xdirs |-> xd]
      ELSE
        LET xd1 == xd \cup {<<c.z, c.x>>} IN
        IF c \in fs
        THEN [act |-> "callback", err |-> ErrNull, zdir |-> zd1, xdirs |-> xd1]
        ELSE [act |-> "axios", err |-> ErrUndefined, zdir |-> zd1, xdirs |-> xd1]

\* ------------------------------------------------------------ stopChildProcesses
\* stopped++ and whether the pool is killed and the callback called.
\* stopChildProcesses with the test written stopped <= numCPUs.
stopChildProcessesLate(s, n) == [stopped |-> s + 1, kill |-> ~(s + 1 <= n)]

\* stopChildProcesses without the test of stopped: the first call kills.
stopChildProcessesFirst(s, n) == [stopped |-> s + 1, kill |-> TRUE]

stopChildProcesses(s, n) == [stopped |-> s + 1, kill |-> ~(s + 1 < n)]

\* ------------------------------------------------------------ Init
\* No coordinate function applied on its own yet.
NoProbe == [fn |-> "none"]

BBoxes == {<<s, w, n, e>> : s \in Souths, w \in Wests, n \in Norths, e \in Easts}

\* Bounding boxes as documented: [south, west, north, east], south <= north,
\* west <= east.
ValidBBoxes == {b \in BBoxes : b[1] <= b[3] /\ b[2] <= b[4]}

AllOptions ==
    {[bbox |-> b, zoom |-> [min |-> lo, max |-> hi]] :
        b \in ValidBBoxes, lo \in Zooms, hi \in Zooms}

EmptyStore(kind) ==
    [root |-> kind, zdir |-> [z \in Zooms |-> "absent"], xdirs |-> {}, files |-> {}]

\* The cursor as lines 234-247 seed it.
Seed(o) ==
    LET b == bboxToBounds(o.bbox, o.zoom.min)
    IN [bounds |-> b, coords |-> [z |-> o.zoom.min, x |-> b.west, y |-> b.north]]

\* The south-east tile of the last zoom.
LastTile(o) ==
    LET b == bboxToBounds(o.bbox, o.zoom.max)
    IN [z |-> o.zoom.max, x |-> b.east, y |-> b.south]

\* The stores a run may start from: nothing there, a regular file or an
\* uncreatable path in the output root's place, a read-only output directory,
\* the first or the last tile of the range already stored, or
\* output/{zoom.min} occupied by a regular file.
Stores(o) ==
    {EmptyStore(k) : k \in {"absent", "file", "readonly", "uncreatable"}}
    \cup {[root |-> "dir",
           zdir |-> [z \in Zooms |-> IF z = a.z THEN "dir" ELSE "absent"],
           xdirs |-> {<<a.z, a.x>>}, files |-> {a}] :
              a \in {Seed(o).coords, LastTile(o)}}
    \cup {[root |-> "dir",
           zdir |-> [z \in Zooms |-> IF z = o.zoom.min THEN "file" ELSE "absent"],
           xdirs |-> {}, files |-> {}]}

\* The tiles of the zooms of the model: 2^z by 2^z at zoom z.
Tiles ==
    {t \in [z : Zooms, x : 0..(2 ^ MaxZoom - 1), y : 0..(2 ^ MaxZoom - 1)] :
        t.x < 2 ^ t.z /\ t.y < 2 ^ t.z}

NoFetches == [a \in Tiles |-> 0]

\* The tiles inside the tile bounds of their zoom, for the zooms of o: the
\* tiles the cursor of getNextJob stays within.
Extent(o) ==
    {t \in Tiles :
        /\ t.z \in o.zoom.min..o.zoom.max
        /\ LET b == bboxToBounds(o.bbox, t.z)
           IN /\ b.west <= t.x /\ t.x <= b.east
              /\ b.north <= t.y /\ t.y <= b.south}

Init ==
    /\ options \in {o \in AllOptions :
                      /\ o.zoom.min <= o.zoom.max
                      /\ Cardinality(Extent(o)) <= MaxTiles}
    /\ numCPUs \in 1..MaxCPUs
    /\ \E st \in Stores(options) :
          /\ root = st.root /\ zdir = st.zdir /\ xdirs = st.xdirs /\ files = st.files
          /\ hist = [root0 |-> st.root, files0 |-> st.files, pathErr |-> FALSE,
                     afterPathErr |-> FALSE, count1 |-> 0, full |-> FALSE,
                     failReports |-> {}, cut |-> FALSE]
    /\ mstate = "init"
    /\ coords = Seed(options).coords
    /\ bounds = Seed(options).bounds
    /\ count = 0
    /\ stopped = 0
    /\ called = <<>>
    /\ workers = EmptyBag
    /\ issued = <<>>
    /\ emitted = <<>>
    /\ fetched = NoFetches
    /\ faults = 0
    /\ run = 1
    /\ probe = NoProbe

\* ------------------------------------------------------------ master
\* The fork loop's first job for each of the n workers: the cursor as it
\* stands, for every worker (lines 357-390 never call getNextJob).
InitialJobs(c, n) == [w \in 1..n |-> c]

RECURSIVE ForkAll(_)
ForkAll(jobs) ==
    IF jobs = <<>> THEN EmptyBag
    ELSE SetToBag({Forked(Head(jobs))}) (+) ForkAll(Tail(jobs))

\* getTiles in the master: createDir(options.output), then fork numCPUs
\* workers, register the message handlers and send each worker its first job.
GetTiles ==
    /\ mstate = "init"
    /\ LET d == createDir(IF root \in {"absent", "uncreatable"} THEN "absent"
                          ELSE IF root = "file" THEN "file" ELSE "dir",
                          root = "absent")
       IN IF ~d.ok
          THEN /\ mstate' = "failed"
               /\ called' = Append(called, pathError(<<>>))
               /\ UNCHANGED <<root, workers, issued, emitted>>
          ELSE /\ mstate' = "running"
               /\ root' = IF root = "absent" THEN "dir" ELSE root
               /\ workers' = ForkAll(InitialJobs(coords, numCPUs))
               /\ issued' = issued \o InitialJobs(coords, numCPUs)
               /\ emitted' = <<coords>>
               /\ UNCHANGED called
    /\ UNCHANGED <<probe, options, numCPUs, zdir, xdirs, files, coords, bounds, count,
                   stopped, fetched, faults, run, hist>>

\* worker.on('message'): getNextJob, then either worker.send(nextJob) or
\* stopChildProcesses().
MasterOnMessage(ws) ==
    /\ mstate \in {"running", "stopped"}
    /\ ws.outbox # <<>>
    /\ LET msg == Head(ws.outbox)
           r == getNextJob(coords, bounds, count)
           bad == msg.err.kind = "PathError"
       IN /\ coords' = r.coords
          /\ bounds' = r.bounds
          /\ count' = r.count
          /\ hist' = [hist EXCEPT
                        !.pathErr = @ \/ bad,
                        !.afterPathErr = @ \/ (r.job # NoJob /\ (hist.pathErr \/ bad)),
                        !.cut = @ \/ (/\ r.job = NoJob
                                       /\ stopChildProcesses(stopped, numCPUs).kill
                                       /\ \E v \in Pool : v.writing)]
          /\ IF r.job # NoJob
             THEN /\ workers' = Replace(workers, ws,
                                   [ws EXCEPT !.outbox = Tail(@),
                                              !.inbox = Append(@, r.job)])
                  /\ issued' = Append(issued, r.job)
                  /\ emitted' = Append(emitted, r.job)
                  /\ UNCHANGED <<stopped, mstate, called>>
             ELSE LET s == stopChildProcesses(stopped, numCPUs)
                      answered == Replace(workers, ws,
                                     [ws EXCEPT !.outbox = Tail(@), !.idle = TRUE])
                  IN
                  /\ stopped' = s.stopped
                  /\ IF s.kill
                     THEN /\ mstate' = "stopped"
                          /\ called' = Append(called, ErrUndefined)
                          /\ workers' = KillAll(answered)
                     ELSE /\ workers' = answered
                          /\ UNCHANGED <<mstate, called>>
                  /\ UNCHANGED <<issued, emitted>>
    /\ UNCHANGED <<probe, options, numCPUs, root, zdir, xdirs, files, fetched, faults,
                   run>>

\* ------------------------------------------------------------ worker
\* A worker that advances the cursor itself when it takes a job.
WorkerOnMessageAdvancing(ws) ==
    /\ ws.st = "ready"
    /\ ws.inbox # <<>>
    /\ LET c == Head(ws.inbox)
           t == getTile(c, root, zdir, xdirs, files)
       IN /\ zdir' = t.zdir
          /\ xdirs' = t.xdirs
          /\ IF t.act = "callback"
             THEN /\ workers' = Replace(workers, ws,
                                   [ws EXCEPT !.inbox = Tail(@),
                                              !.outbox = Append(@, Report(t.err))])
                  /\ UNCHANGED fetched
             ELSE /\ workers' = Replace(workers, ws,
                                   [ws EXCEPT !.inbox = Tail(@),
                                              !.pending = @ \cup {c}])
                  /\ fetched' = [fetched EXCEPT ![c] = @ + 1]
    /\ LET r == getNextJob(coords, bounds, count)
       IN coords' = r.coords /\ bounds' = r.bounds /\ count' = r.count
    /\ UNCHANGED <<probe, options, numCPUs, root, files, mstate,
                   stopped, called, issued, emitted, faults, run, hist>>

\* process.on('message'): getTile up to its first return.
WorkerOnMessage(ws) ==
    /\ ws.st = "ready"
    /\ ws.inbox # <<>>
    /\ LET c == Head(ws.inbox)
           t == getTile(c, root, zdir, xdirs, files)
       IN /\ zdir' = t.zdir
          /\ xdirs' = t.xdirs
          /\ IF t.act = "callback"
             THEN /\ workers' = Replace(workers, ws,
                                   [ws EXCEPT !.inbox = Tail(@),
                                              !.outbox = Append(@, Report(t.err))])
                  /\ UNCHANGED fetched
             ELSE /\ workers' = Replace(workers, ws,
                                   [ws EXCEPT !.inbox = Tail(@),
                                              !.pending = @ \cup {c}])
                  /\ fetched' = [fetched EXCEPT ![c] = @ + 1]
    /\ UNCHANGED <<probe, options, numCPUs, root, files, mstate, coords, bounds, count,
                   stopped, called, issued, emitted, faults, run, hist>>

\* The request resolves: .then pipes the body into a write stream on the
\* image path (the stream creates the file), .finally calls callback().
AxiosResolve(ws) ==
    /\ ws.st = "ready"
    /\ \E c \in ws.pending :
        /\ workers' = Replace(workers, ws,
                         [ws EXCEPT !.pending = @ \ {c},
                                    !.writing = TRUE,
                                    !.outbox = Append(@, Report(ErrUndefined))])
        /\ files' = files \cup {c}
    /\ UNCHANGED <<probe, options, numCPUs, root, zdir, xdirs, mstate, coords, bounds,
                   count, stopped, called, issued, emitted, fetched, faults,
                   run, hist>>

\* The request rejects: .then is skipped, .finally calls callback().
AxiosReject(ws) ==
    /\ ws.st = "ready"
    /\ faults < MaxFaults
    /\ faults' = faults + 1
    /\ \E c \in ws.pending :
        workers' = Replace(workers, ws,
                      [ws EXCEPT !.pending = @ \ {c},
                                 !.outbox = Append(@, Report(ErrUndefined))])
    /\ hist' = [hist EXCEPT !.failReports = @ \cup {Report(ErrUndefined)}]
    /\ UNCHANGED <<probe, options, numCPUs, root, zdir, xdirs, files, mstate, coords,
                   bounds, count, stopped, called, issued, emitted, fetched,
                   run>>

\* The last write stream the worker has open drains and closes.
WriteFinish(ws) ==
    /\ ws.writing
    /\ workers' = Replace(workers, ws, [ws EXCEPT !.writing = FALSE])
    /\ UNCHANGED <<probe, options, numCPUs, root, zdir, xdirs, files, mstate, coords,
                   bounds, count, stopped, called, issued, emitted, fetched,
                   faults, run, hist>>

\* A write stream (or the body piped into it) emits 'error'.  No listener is
\* attached at line 217, so the event is unhandled and ends the worker
\* process; what the stream had written stays on disk.
WriteError(ws) ==
    /\ ws.writing
    /\ faults < MaxFaults
    /\ faults' = faults + 1
    /\ workers' = Replace(workers, ws,
                     [ws EXCEPT !.st = "crashed", !.writing = FALSE,
                                !.pending = {}])
    /\ UNCHANGED <<probe, options, numCPUs, root, zdir, xdirs, files, mstate, coords,
                   bounds, count, stopped, called, issued, emitted, fetched,
                   run, hist>>

\* ------------------------------------------------------------ second run
\* getTiles is invoked again with the same options on the same output root.
Rerun ==
    /\ mstate = "stopped"
    /\ run < 2
    /\ run' = run + 1
    /\ hist' = [hist EXCEPT !.count1 = count, !.full = Range(options) \subseteq files,
                            !.pathErr = FALSE, !.afterPathErr = FALSE,
                            !.failReports = {}, !.cut = FALSE]
    /\ mstate' = "init"
    /\ coords' = Seed(options).coords
    /\ bounds' = Seed(options).bounds
    /\ count' = 0
    /\ stopped' = 0
    /\ called' = <<>>
    /\ workers' = EmptyBag
    /\ issued' = <<>>
    /\ emitted' = <<>>
    /\ fetched' = NoFetches
    /\ UNCHANGED <<probe, options, numCPUs, root, zdir, xdirs, files, faults>>

\* ------------------------------------------------------------ specification
Next ==
    \/ GetTiles
    \/ \E ws \in Pool : MasterOnMessage(ws)
    \/ \E ws \in Pool : WorkerOnMessage(ws)
    \/ \E ws \in Pool : AxiosResolve(ws)
    \/ \E ws \in Pool : AxiosReject(ws)
    \/ \E ws \in Pool : WriteFinish(ws)
    \/ \E ws \in Pool : WriteError(ws)

Spec == Init /\ [][Next]_vars

\* Two runs in a row on the same output root.
NextTwice ==
    \/ GetTiles
    \/ \E ws \in Pool : MasterOnMessage(ws)
    \/ \E ws \in Pool : WorkerOnMessage(ws)
    \/ \E ws \in Pool : AxiosResolve(ws)
    \/ \E ws \in Pool : AxiosReject(ws)
    \/ \E ws \in Pool : WriteFinish(ws)
    \/ \E ws \in Pool : WriteError(ws)
    \/ Rerun

TwiceSpec == Init /\ [][NextTwice]_vars

\* The handlers of the master and of the workers.
MasterStep == \E ws \in Pool : MasterOnMessage(ws)
WorkerStep == \E ws \in Pool : WorkerOnMessage(ws)
AxiosSettles == \E ws \in Pool : AxiosResolve(ws) \/ AxiosReject(ws)

\* The run under the assumption that every worker reports each job it
\* receives: no stream error ends a worker, the event loops handle every
\* delivered message, every request settles.
NextReporting ==
    \/ GetTiles
    \/ \E ws \in Pool : MasterOnMessage(ws)
    \/ \E ws \in Pool : WorkerOnMessage(ws)
    \/ \E ws \in Pool : AxiosResolve(ws)
    \/ \E ws \in Pool : AxiosReject(ws)
    \/ \E ws \in Pool : WriteFinish(ws)

FairSpec ==
    /\ Init
    /\ [][NextReporting]_vars
    /\ WF_vars(GetTiles)
    /\ WF_vars(MasterStep)
    /\ WF_vars(WorkerStep)
    /\ WF_vars(AxiosSettles)

\* ------------------------------------------------------------ coordinate functions
\* The coordinate functions applied on their own, once each behaviour, to
\* arguments drawn from sets wider than the boxes of the runs above.
ProbeZooms == 0..MaxProbeZoom
ProbeLngs == -180..179
ProbeLats == {-85, -60, -45, -30, 0, 30, 45, 60, 85}
ProbeCorners == {-180, -90, 0, 90, 179}

\* Boxes [south, west, north, east] with south <= north and west <= east.
ProbeBBoxes ==
    {<<s, w, n, e>> : s \in ProbeLats, w \in ProbeCorners,
                      n \in ProbeLats, e \in ProbeCorners}
    \cap {b \in Seq(Int) : b[1] <= b[3] /\ b[2] <= b[4]}

\* getTiles of src/index.js: the bounds of zoom.min and the cursor seeded at
\* x = bounds.east, y = bounds.south.
getTilesIndex(o) ==
    LET b == bboxToBoundsIndex(o.bbox, o.zoom.min)
    IN [bounds |-> b, coords |-> [z |-> o.zoom.min, x |-> b.east, y |-> b.south]]

run_vars == <<options, numCPUs, root, zdir, xdirs, files, mstate, coords, bounds,
              count, stopped, called, workers, issued, emitted, fetched, faults,
              run, hist>>

\* lngToTile at one zoom on two longitudes lng <= lng2.
ApplyLngToTile ==
    /\ probe = NoProbe
    /\ \E z \in ProbeZooms, a \in ProbeLngs, b \in ProbeLngs :
          /\ a <= b
          /\ probe' = [fn |-> "lngToTile", zoom |-> z,
                       lng |-> a, tile |-> lngToTile(a, z),
                       lng2 |-> b, tile2 |-> lngToTile(b, z)]
    /\ UNCHANGED run_vars

\* The start of getTiles of the cluster version on a box at one zoom.
ApplyGetTiles ==
    /\ probe = NoProbe
    /\ \E z \in ProbeZooms, b \in ProbeBBoxes :
          LET s == Seed([bbox |-> b, zoom |-> [min |-> z, max |-> z]])
          IN probe' = [fn |-> "getTiles", zoom |-> z, bbox |-> b,
                       bounds |-> s.bounds, coords |-> s.coords]
    /\ UNCHANGED run_vars

\* The start of getTiles of src/index.js on a box at one zoom.
ApplyGetTilesIndex ==
    /\ probe = NoProbe
    /\ \E z \in ProbeZooms, b \in ProbeBBoxes :
          LET s == getTilesIndex([bbox |-> b, zoom |-> [min |-> z, max |-> z]])
          IN probe' = [fn |-> "getTilesIndex", zoom |-> z, bbox |-> b,
                       bounds |-> s.bounds, coords |-> s.coords]
    /\ UNCHANGED run_vars

MathInit ==
    /\ Init
    /\ numCPUs = 1
    /\ root = "absent"
    /\ options = [bbox |-> <<0, 0, 0, 0>>, zoom |-> [min |-> 0, max |-> 0]]

MathNext ==
    \/ ApplyLngToTile
    \/ ApplyGetTiles
    \/ ApplyGetTilesIndex

MathSpec == MathInit /\ [][MathNext]_vars

\* ------------------------------------------------------------ sequential version
\* getTiles of src/unnamed/part_000: one getTile at a time, the next one
\* started from the callback of the one before.
\* tileGetCallback with the column test written x < east: the last column
\* is skipped.
tileGetCallbackStrictColumn(o, c, b, n) ==
    LET cy == [c EXCEPT !.y = c.y + 1] IN
    IF cy.y <= b.south
    THEN [coords |-> cy, bounds |-> b, count |-> n + 1, job |-> cy]
    ELSE
      LET cx == [cy EXCEPT !.x = cy.x + 1, !.y = b.north] IN
      IF cx.x < b.east
      THEN [coords |-> cx, bounds |-> b, count |-> n + 1, job |-> cx]
      ELSE
        LET b1 == bboxToBounds(o.bbox, c.z + 1)
            cz == [z |-> c.z + 1, x |-> b1.west, y |-> b1.north]
        IN [coords |-> cz, bounds |-> b1, count |-> n + 1,
            job |-> IF cz.z <= o.zoom.max THEN cz ELSE NoJob]

\* tileGetCallback called with a falsy err: count++, the cursor advanced,
\* and the coords of the getTile it starts (NoJob when it starts none).
tileGetCallback(o, c, b, n) ==
    LET cy == [c EXCEPT !.y = c.y + 1] IN
    IF cy.y <= b.south
    THEN [coords |-> cy, bounds |-> b, count |-> n + 1, job |-> cy]
    ELSE
      LET cx == [cy EXCEPT !.x = cy.x + 1, !.y = b.north] IN
      IF cx.x <= b.east
      THEN [coords |-> cx, bounds |-> b, count |-> n + 1, job |-> cx]
      ELSE
        LET b1 == bboxToBounds(o.bbox, c.z + 1)
            cz == [z |-> c.z + 1, x |-> b1.west, y |-> b1.north]
        IN [coords |-> cz, bounds |-> b1, count |-> n + 1,
            job |-> IF cz.z <= o.zoom.max THEN cz ELSE NoJob]

\* The run from cursor c on, every getTile calling back without a path
\* error: the coords getTile was called with, in order, and the final count.
RECURSIVE SequentialFrom(_, _, _, _, _)
SequentialFrom(o, c, b, n, out) ==
    LET r == tileGetCallback(o, c, b, n) IN
    IF r.job = NoJob THEN [issued |-> out, count |-> r.count]
    ELSE SequentialFrom(o, r.coords, r.bounds, r.count, Append(out, r.job))

\* The sequential getTiles on options o: the first getTile on the seeded
\* cursor, then the chain of callbacks.
getTilesSequential(o) ==
    SequentialFrom(o, Seed(o).coords, Seed(o).bounds, 0, <<Seed(o).coords>>)

\* ------------------------------------------------------------ properties
\* Lexicographic order on (z, x, y).
Less(a, b) ==
    \/ a.z < b.z
    \/ a.z = b.z /\ a.x < b.x
    \/ a.z = b.z /\ a.x = b.x /\ a.y < b.y

IsPrefix(s, t) == Len(s) <= Len(t) /\ \A i \in 1..Len(s) : s[i] = t[i]

\* The tile bounds of every zoom of the range are ordered.
BoundsOrdered(o) ==
    \A z \in o.zoom.min..o.zoom.max :
        LET b == bboxToBounds(o.bbox, z) IN b.west <= b.east /\ b.north <= b.south

Total(o) == TileSum(o.bbox, o.zoom.min, o.zoom.max)

\* The jobs a worker holds: sent to it and not yet reported.
Holding(ws) == SeqRange(ws.inbox) \cup ws.pending

\* C1: over the whole run, the initial dispatch included, no address is
\* issued twice and no two workers hold a job for the same address at the
\* same time.
C1_NoAddressIssuedTwice ==
    /\ \A i, j \in 1..Len(issued) : i # j => issued[i] # issued[j]
    /\ \A v, w \in Pool : v # w => Holding(v) \cap Holding(w) = {}
    /\ \A w \in Pool : workers[w] > 1 => Holding(w) = {}

\* C2: when the tile bounds are ordered at every zoom, the initial cursor
\* followed by the jobs of getNextJob is, at every moment, a prefix of the
\* reference nested enumeration, strictly ascending in (z, x, y), and once
\* the cursor is exhausted it is the whole enumeration.
C2_IteratorMatchesReference ==
    (BoundsOrdered(options) /\ mstate \in {"running", "stopped"}) =>
        /\ IsPrefix(emitted, Reference(options))
        /\ \A i \in 1..(Len(emitted) - 1) : Less(emitted[i], emitted[i + 1])
        /\ coords.z > options.zoom.max => emitted = Reference(options)

C2_Witness ==
    /\ BoundsOrdered(options)
    /\ coords.z > options.zoom.max
    /\ options.zoom.min < options.zoom.max
    /\ Len(emitted) >= 5

\* C3: when the dispatcher stops, count equals the sum over the zooms of
\* (east - west + 1) * (south - north + 1), whatever the number of workers
\* and the order of their reports.
C3_FinalCount == mstate = "stopped" => count = Total(options)

C3_Witness ==
    /\ mstate = "stopped"
    /\ numCPUs = 2
    /\ count >= 5
    /\ faults > 0

\* C4: when every worker reports each job it receives, a running dispatcher
\* eventually stops; it stops exactly when stopped reaches numCPUs, with
\* every worker killed and the callback called once, and never calls the
\* callback before or again after.
C4_Terminates ==
    /\ (mstate = "running") ~> (mstate = "stopped")
    /\ [](mstate = "running" => stopped < numCPUs /\ called = <<>>)
    /\ [](mstate = "stopped" =>
            /\ stopped = numCPUs
            /\ called = <<ErrUndefined>>
            /\ BagCardinality(workers) = numCPUs
            /\ \A ws \in Pool : ws.st = "killed")

C4_Witness ==
    /\ mstate = "stopped"
    /\ numCPUs = 2
    /\ stopped = 2
    /\ Len(called) = 1
    /\ Len(emitted) >= 5

\* C5: a worker that handles a job whose image file exists reports at once
\* with err = null, which the master does not take for an error, and makes
\* no request for it.
C5_ExistingTileNotFetched ==
    [][\A ws \in Pool : \A ws2 \in BagToSet(workers') :
          (/\ ws.inbox # <<>>
           /\ Head(ws.inbox) \in files
           /\ ws2.inbox = Tail(ws.inbox)
           /\ workers' = Replace(workers, ws, ws2))
          => /\ ws2 = [ws EXCEPT !.inbox = Tail(@),
                                 !.outbox = Append(@, Report(ErrNull))]
             /\ ~Report(ErrNull).success
             /\ fetched' = fetched]_vars

C5_Witness ==
    /\ hist.files0 # {}
    /\ \A a \in hist.files0 : fetched[a] = 0
    /\ \E ws \in Pool : ws.outbox = <<Report(ErrNull)>>

\* C6 as claimed: the second run on the same output root with the same
\* options makes no request and reports the count of the first run.
C6_SecondRunFetchesNothing ==
    run = 2 =>
        /\ \A a \in Range(options) : fetched[a] = 0
        /\ mstate = "stopped" => count = hist.count1

\* C6 as amended: the second run reports the count of the first run, and
\* makes no request provided the image of every address of the range is in
\* the store when the second run begins.
C6_SecondRunAmended ==
    run = 2 =>
        /\ hist.full => \A a \in Range(options) : fetched[a] = 0
        /\ mstate = "stopped" => count = hist.count1

C6_Witness ==
    /\ run = 2
    /\ mstate = "stopped"
    /\ hist.full
    /\ numCPUs = 2
    /\ count >= 5

\* C7: in a run that starts from an empty store, at most one request is
\* made per address.
C7_FetchedAtMostOnce ==
    (run = 1 /\ hist.files0 = {}) => \A a \in Range(options) : fetched[a] <= 1

\* C8: when the output root cannot be created (the path is occupied by a
\* regular file, or mkdirSync fails), getTiles calls the callback with the
\* path error and issues no job.
C8_RootFailureAborts ==
    (hist.root0 \in {"file", "uncreatable"} /\ run = 1 /\ mstate # "init") =>
        /\ mstate = "failed"
        /\ called = <<pathError(<<>>)>>
        /\ issued = <<>>

\* C9: once the master has received the report of a failed creation of a
\* {z} or {z}/{x} directory, the caller has been given the path error and
\* no job is issued any more.
C9_PathErrorAborts ==
    hist.pathErr =>
        /\ ~hist.afterPathErr
        /\ \E i \in 1..Len(called) : called[i].kind = "PathError"

\* No handler of the run can fire any more.
Quiescent ==
    /\ mstate # "init"
    /\ \A ws \in Pool :
          /\ ws.outbox = <<>>
          /\ ws.st = "ready" => (ws.inbox = <<>> /\ ws.pending = {})

\* C10: after a failed fetch or write, the run still issues every address
\* of the range in order and stops: when nothing is left to happen, the
\* whole enumeration has been issued and the dispatcher has stopped.
C10_FailureIsNotFatal ==
    (faults > 0 /\ hist.root0 = "absent" /\ Quiescent) =>
        /\ mstate = "stopped"
        /\ emitted = Reference(options)

\* C11: the report a worker sends for a job whose fetch failed is a failure
\* report (the flag the master logs on is set) and carries the cause: its
\* err is neither null nor undefined.
C11_FailureReportCarriesCause ==
    \A r \in hist.failReports :
        /\ r.success
        /\ r.err.kind \notin {"null", "undefined"}

\* C12: in a run without directory errors, the count the dispatcher holds
\* at shutdown is the number of addresses of the range whose tile is stored
\* (fetched and written in this run, or present before it): a tile whose
\* fetch failed is not counted.
C12_CountIsCompletedTiles ==
    (mstate = "stopped" /\ hist.root0 = "absent") =>
        count = Cardinality(Range(options) \cap files)

\* C13: for a box [south, west, north, east] with south <= north and
\* west <= east, the bounds getTiles computes satisfy north <= south and
\* west <= east, and the cursor is seeded at x = bounds.west,
\* y = bounds.north; in the cluster version and in src/index.js alike.
C13_BoundsOrderedAndSeeded ==
    probe.fn \in {"getTiles", "getTilesIndex"} =>
        /\ probe.bounds.north <= probe.bounds.south
        /\ probe.bounds.west <= probe.bounds.east
        /\ probe.coords.x = probe.bounds.west
        /\ probe.coords.y = probe.bounds.north

\* C14: for every zoom and all integer longitudes lng <= lng2 of [-180, 180),
\* lngToTile(lng) is in 0..2^zoom - 1 and lngToTile(lng) <= lngToTile(lng2).
C14_LngToTileInRangeMonotone ==
    probe.fn = "lngToTile" =>
        /\ 0 <= probe.tile /\ probe.tile <= 2 ^ probe.zoom - 1
        /\ 0 <= probe.tile2 /\ probe.tile2 <= 2 ^ probe.zoom - 1
        /\ probe.tile <= probe.tile2

C14_Witness ==
    /\ probe.fn = "lngToTile"
    /\ probe.zoom >= 3
    /\ probe.lng = -180 /\ probe.tile = 0
    /\ probe.lng2 = 179 /\ probe.tile2 = 2 ^ probe.zoom - 1

\* The workers of pool B that hold no job and are marked idle.
IdleWorkers(B) ==
    BagCardinality([w \in {x \in DOMAIN B : x.inbox = <<>> /\ x.idle} |-> B[w]])

\* C15: the start of the run gives the W workers the first min(N, W)
\* addresses of the enumeration, one each, the iterator advanced once per
\* worker; with N < W the other W - N workers get no job and are idle.
C15_InitialJobsAdvanceIterator ==
    [][(mstate = "init" /\ mstate' = "running") =>
          LET N == Total(options)
              k == IF numCPUs <= N THEN numCPUs ELSE N
          IN /\ issued' = SubSeq(Reference(options), 1, k)
             /\ BagCardinality(workers') = numCPUs
             /\ IdleWorkers(workers') = numCPUs - k]_vars

\* C16: once the cursor is past zoom.max, no step changes the cursor, the
\* bounds or count, and no job is issued: every later call of getNextJob
\* returns no job and leaves the three as they are.
C16_ExhaustionAbsorbing ==
    [][coords.z > options.zoom.max =>
          /\ coords' = coords
          /\ bounds' = bounds
          /\ count' = count
          /\ issued' = issued
          /\ emitted' = emitted]_vars

C16_Witness ==
    /\ coords.z > options.zoom.max
    /\ numCPUs = 2
    /\ stopped = 2
    /\ count >= 3

\* C17: a worker reports a fetched tile only after its body has been
\* written and the stream closed: no worker has a report waiting or a new
\* job in hand while one of its write streams is open, and the pool is
\* never killed while a write stream is open.
C17_ReportAfterWrite ==
    /\ \A ws \in Pool : ws.writing => (ws.outbox = <<>> /\ ws.inbox = <<>>)
    /\ ~hist.cut

\* The jobs sent to the workers of pool B and not handled yet, and the
\* reports they sent that the master has not handled yet.
Undelivered(B) ==
    BagCardinality([w \in {x \in DOMAIN B : x.inbox # <<>>} |-> B[w] * Len(w.inbox)])
Unhandled(B) ==
    BagCardinality([w \in {x \in DOMAIN B : x.outbox # <<>>} |-> B[w] * Len(w.outbox)])

\* C18: a worker never has more than one job issued to it and not yet
\* reported, and none once its report has been answered by the exhausted
\* cursor; after start-up a job is issued only by a step that takes one
\* report of a worker and puts the job in that worker's inbox.
C18_OneJobPerWorker ==
    /\ [](\A ws \in Pool :
            /\ Len(ws.inbox) + Cardinality(ws.pending) + Len(ws.outbox) <= 1
            /\ ws.idle => (ws.inbox = <<>> /\ ws.pending = {} /\ ws.outbox = <<>>))
    /\ [][(mstate = "running" /\ issued' # issued) =>
            \E ws \in Pool :
               /\ ws.outbox # <<>>
               /\ workers' = Replace(workers, ws,
                                [ws EXCEPT !.outbox = Tail(@),
                                           !.inbox = <<issued'[Len(issued')]>>])
               /\ Len(issued') = Len(issued) + 1]_vars

C18_Witness ==
    /\ numCPUs = 2
    /\ mstate = "running"
    /\ \E v \in Pool : v.idle
    /\ \E w \in Pool : w.st = "ready" /\ w.pending # {}
    /\ Len(issued) >= 5

\* C19: the cursor, the bounds and count change only in a step of the
\* master that takes one report of a worker and calls getNextJob once; every
\* other step, the workers' existence check, fetch, write and report among
\* them, leaves the three unchanged.
C19_OnlyMasterAdvances ==
    [][(coords' # coords \/ bounds' # bounds \/ count' # count) =>
          /\ mstate = "running"
          /\ Unhandled(workers') = Unhandled(workers) - 1
          /\ Undelivered(workers') >= Undelivered(workers)
          /\ fetched' = fetched /\ files' = files
          /\ LET r == getNextJob(coords, bounds, count)
             IN coords' = r.coords /\ bounds' = r.bounds /\ count' = r.count]_vars

C19_Witness ==
    /\ numCPUs = 2
    /\ count >= 2
    /\ \E a \in Range(options) : fetched[a] > 0 /\ a \in files
    /\ \E ws \in Pool : ws.writing /\ ws.pending # {}

\* C20 as claimed: when the master handles a report, count is incremented
\* exactly when a job is issued in answer, and not otherwise.
C20_CountedWhenJobSent ==
    [][Unhandled(workers') = Unhandled(workers) - 1 =>
          /\ count' \in {count, count + 1}
          /\ count' = count + 1 <=> issued' # issued]_vars

\* C20 as amended: when the master handles a report, count is incremented
\* exactly when the cursor was not yet past zoom.max: when a job is issued
\* in answer, and on the one call that exhausts the cursor and issues none.
C20_CountedUntilExhausted ==
    [][Unhandled(workers') = Unhandled(workers) - 1 =>
          /\ count' \in {count, count + 1}
          /\ count' = count + 1 <=> coords.z <= options.zoom.max
          /\ issued' # issued => count' = count + 1
          /\ (count' = count + 1 /\ issued' = issued) =>
                (coords'.z > options.zoom.max /\ stopped' = stopped + 1)]_vars

C20_Witness ==
    /\ coords.z > options.zoom.max
    /\ stopped = 1
    /\ numCPUs = 2
    /\ count = Total(options)
    /\ count >= 3
    /\ Len(issued) = count + 1

\* C21: with one worker and no directory error reported, the jobs issued
\* are at every moment a duplicate-free prefix of the canonical enumeration;
\* the step that handles the report of the last address stops the
\* dispatcher, and no other step does; and at the stop the jobs issued and
\* count are those of the sequential getTiles on the same options.
C21_SingleWorkerMatchesSequential ==
    /\ []((numCPUs = 1 /\ ~hist.pathErr /\ mstate \in {"running", "stopped"}) =>
            /\ IsPrefix(issued, Reference(options))
            /\ \A i, j \in 1..Len(issued) : i # j => issued[i] # issued[j]
            /\ mstate = "stopped" =>
                 /\ issued = Reference(options)
                 /\ issued = getTilesSequential(options).issued
                 /\ count = getTilesSequential(options).count)
    /\ [][(numCPUs = 1 /\ mstate = "running") =>
            (mstate' = "stopped" <=>
                /\ issued = Reference(options)
                /\ Unhandled(workers') = Unhandled(workers) - 1)]_vars

C21_Witness ==
    /\ numCPUs = 1
    /\ mstate = "stopped"
    /\ ~hist.pathErr
    /\ hist.root0 = "absent"
    /\ options.zoom.min < options.zoom.max
    /\ count >= 5
    /\ Range(options) \subseteq files

\* C22: stopChildProcesses is called at most once per worker, so stopped
\* is the number of workers answered by the exhausted cursor and never
\* exceeds numCPUs; and when the pool has been killed every job issued has
\* been reported and the report handled: no killed worker holds a job.
C22_KillAfterAllReported ==
    /\ stopped <= numCPUs
    /\ mstate \in {"running", "stopped"} => stopped = IdleWorkers(workers)
    /\ mstate = "stopped" =>
          /\ stopped = numCPUs
          /\ \A ws \in Pool :
                /\ ws.st \in {"killed", "crashed"}
                /\ ws.idle
                /\ Holding(ws) = {}
                /\ ws.outbox = <<>>

C22_Witness ==
    /\ mstate = "stopped"
    /\ numCPUs = 2
    /\ stopped = 2
    /\ faults > 0
    /\ Len(issued) >= 5

====
